---- MODULE Spec2Model ----
(***************************************************************************)
(* elmkit/messages.py: normalize (input shapes -> canonical payload) and   *)
(* to_openai (Message objects -> OpenAI-style payload).                    *)
(*                                                                         *)
(* Python values are modelled by one record shape                          *)
(*     [py |-> type name, s |-> text, d |-> mapping, l |-> elements]       *)
(* so that a dict is a TLA+ function from its keys to values, a list is a  *)
(* sequence of values, and a dataclass instance is its attribute mapping.  *)
(* An int carries its decimal text in s.  A call's outcome is either a     *)
(* returned value or the class and message of the exception it raised.     *)
(***************************************************************************)
EXTENDS Integers, Sequences, FiniteSets, TLC

VARIABLES op, data, strip_meta, messages, use_instructions, result, first

vars == <<op, data, strip_meta, messages, use_instructions, result, first>>

\* ------------------------------------------------------------------
\* Bounds of the explored inputs
\* ------------------------------------------------------------------
MaxLen == 2      \* longest list / "messages" sequence given to normalize
MaxMsgs == 3     \* longest Message list given to to_openai

\* ------------------------------------------------------------------
\* Python values
\* ------------------------------------------------------------------
NoKeys == <<>>

PyVal(py, s, d, l) == [py |-> py, s |-> s, d |-> d, l |-> l]

None == PyVal("NoneType", "", NoKeys, <<>>)
Str(x) == PyVal("str", x, NoKeys, <<>>)
PyInt(x) == PyVal("int", x, NoKeys, <<>>)
Dict(m) == PyVal("dict", "", m, <<>>)
List(q) == PyVal("list", "", NoKeys, q)
Dataclass(attrs) == PyVal("dataclass", "", attrs, <<>>)

\* d.get(k, None) and getattr(m, k, None)
Get(m, k) == IF k \in DOMAIN m THEN m[k] ELSE None

\* bool(v)
Truthy(v) ==
    CASE v.py = "NoneType" -> FALSE
      [] v.py = "str" -> v.s # ""
      [] v.py = "int" -> v.s # "0"
      [] v.py = "dict" -> DOMAIN v.d # {}
      [] v.py = "list" -> Len(v.l) > 0
      [] v.py = "dataclass" -> TRUE

\* str(v), for the types a role takes in the explored inputs
PyStr(v) ==
    CASE v.py = "str" -> v.s
      [] v.py = "int" -> v.s
      [] v.py = "NoneType" -> "None"

\* str.swapcase() in the place of str.lower()
SwapCase(x) ==
    CASE x = "USER" -> "user"
      [] x = "user" -> "USER"
      [] x = "System" -> "sYSTEM"
      [] x = "SYSTEM" -> "system"
      [] x = "system" -> "SYSTEM"
      [] x = "Developer" -> "dEVELOPER"
      [] x = "developer" -> "DEVELOPER"
      [] OTHER -> x

\* str.lower(), on the strings that occur as roles
Lower(x) ==
    CASE x = "USER" -> "user"
      [] x = "System" -> "system"
      [] x = "SYSTEM" -> "system"
      [] x = "Developer" -> "developer"
      [] OTHER -> x

\* a call's outcome
Return(v) == [ok |-> TRUE, val |-> v, err |-> "", msg |-> ""]
Raise(cls, text) == [ok |-> FALSE, val |-> None, err |-> cls, msg |-> text]

\* ------------------------------------------------------------------
\* class Message (dataclass; name, tool_call_id and meta default to None)
\* ------------------------------------------------------------------
Message(role, content, name, tool_call_id, meta) ==
    Dataclass([role |-> role, content |-> content, name |-> name,
               tool_call_id |-> tool_call_id, meta |-> meta])

\* ------------------------------------------------------------------
\* internals of normalize
\* ------------------------------------------------------------------
_is_message_like_obj(obj) ==
    obj.py = "dataclass" /\ "role" \in DOMAIN obj.d /\ "content" \in DOMAIN obj.d

\* the validation without its test of the empty string
ValidateAllowEmpty(d) ==
    LET role == Get(d, "role")
        content == Get(d, "content")
    IN  IF role.py # "str" \/ ~Truthy(role)
        THEN Raise("ValueError", "Invalid 'role'")
        ELSE IF content.py = "str"
        THEN Return(None)
        ELSE IF content.py = "list"
        THEN IF \E i \in 1..Len(content.l) : content.l[i].py # "dict"
             THEN Raise("TypeError", "content blocks must be dicts")
             ELSE Return(None)
        ELSE Raise("TypeError", "content must be a string or a list of blocks (dicts)")

\* d is the mapping of the record under validation; the message of the
\* content-block error is kept without its type name and index
_validate_message_dict(d) ==
    LET role == Get(d, "role")
        content == Get(d, "content")
    IN  IF role.py # "str" \/ ~Truthy(role)
        THEN Raise("ValueError", "Invalid 'role'")
        ELSE IF content.py = "str"
        THEN IF content.s = ""
             THEN Raise("ValueError", "Empty string content is not allowed")
             ELSE Return(None)
        ELSE IF content.py = "list"
        THEN IF \E i \in 1..Len(content.l) : content.l[i].py # "dict"
             THEN Raise("TypeError", "content blocks must be dicts")
             ELSE Return(None)
        ELSE Raise("TypeError", "content must be a string or a list of blocks (dicts)")

\* the record after validation: the validation's exception, else the record
Validated(d) ==
    IF _validate_message_dict(d).ok THEN Return(Dict(d)) ELSE _validate_message_dict(d)

_message_obj_to_dict(m, strip) ==
    LET role == Get(m.d, "role")
        content == Get(m.d, "content")
        name == Get(m.d, "name")
        tool_call_id == Get(m.d, "tool_call_id")
        meta == Get(m.d, "meta")
    IN  IF ~Truthy(role) \/ content.py = "NoneType"
        THEN Raise("ValueError", "Message object must have 'role' and 'content'")
        ELSE Validated(
               (IF (~strip) /\ Truthy(meta) THEN "meta" :> meta ELSE NoKeys)
            @@ (IF Truthy(tool_call_id) THEN "tool_call_id" :> tool_call_id ELSE NoKeys)
            @@ (IF Truthy(name) THEN "name" :> name ELSE NoKeys)
            @@ [role |-> Str(Lower(PyStr(role))), content |-> content])

\* "k" in d and d["k"] is not None
Provided(d, k) == k \in DOMAIN d /\ d[k].py # "NoneType"

\* the test of meta without its strip_meta conjunct
KeepMetaAlways(d, strip) == Provided(d, "meta")

\* (not strip_meta) and ("meta" in d) and d["meta"] is not None
KeepMeta(d, strip) == (~strip) /\ Provided(d, "meta")

_coerce_message_dict(x, strip) ==
    IF x.py # "dict"
    THEN Raise("TypeError", "Message item must be a dict")
    ELSE
    LET d == x.d
        role == Get(d, "role")
        content == Get(d, "content")
        has_name == Provided(d, "name")
        has_tool == Provided(d, "tool_call_id")
        has_meta == KeepMeta(d, strip)
    IN  IF role.py # "str" \/ ~Truthy(role)
        THEN Raise("ValueError", "Each message dict must have non-empty string 'role'")
        ELSE IF content.py = "NoneType"
        THEN Raise("ValueError", "Each message dict must have 'content'")
        ELSE IF has_name /\ d["name"].py # "str"
        THEN Raise("TypeError", "'name' must be a string when provided")
        ELSE IF has_tool /\ d["tool_call_id"].py # "str"
        THEN Raise("TypeError", "'tool_call_id' must be a string when provided")
        ELSE IF has_meta /\ d["meta"].py # "dict"
        THEN Raise("TypeError", "'meta' must be a dict when provided")
        ELSE Validated(
               (IF has_meta THEN "meta" :> d["meta"] ELSE NoKeys)
            @@ (IF has_tool THEN "tool_call_id" :> d["tool_call_id"] ELSE NoKeys)
            @@ (IF has_name THEN "name" :> d["name"] ELSE NoKeys)
            @@ [role |-> Str(Lower(role.s)), content |-> content])

\* outcome of evaluating a sequence of conversions left to right: the first
\* exception raised, else the list of the converted records
Collect(outs) ==
    IF \E i \in 1..Len(outs) : ~outs[i].ok
    THEN outs[CHOOSE i \in 1..Len(outs) :
                 ~outs[i].ok /\ \A j \in 1..(i - 1) : outs[j].ok]
    ELSE Return(List([i \in 1..Len(outs) |-> outs[i].val]))

\* one element of a list input (Case 3 & 5)
ListItem(it, strip) ==
    IF _is_message_like_obj(it) THEN _message_obj_to_dict(it, strip)
    ELSE IF it.py = "dict" THEN _coerce_message_dict(it, strip)
    ELSE Raise("TypeError", "List items must be dicts or dataclass with 'role' and 'content'")

\* {"messages": <the converted records>}
Wrap(items) ==
    IF items.ok THEN Return(Dict("messages" :> items.val)) ELSE items

\* the payload test placed after the single-record test
IsFullPayloadUnlessRecord(x) ==
    x.py = "dict" /\ "messages" \in DOMAIN x.d /\ "role" \notin DOMAIN x.d

\* isinstance(data, dict) and "messages" in data
IsFullPayload(x) == x.py = "dict" /\ "messages" \in DOMAIN x.d

normalize(x, strip) ==
    IF IsFullPayload(x)
    THEN IF x.d["messages"].py # "list"
         THEN Raise("TypeError", "'messages' must be a list")
         ELSE LET items == Collect([i \in 1..Len(x.d["messages"].l) |->
                               _coerce_message_dict(x.d["messages"].l[i], strip)])
              IN  IF ~items.ok THEN items
                  ELSE Return(Dict(
                          (IF "instructions" \in DOMAIN x.d
                           THEN "instructions" :> x.d["instructions"] ELSE NoKeys)
                       @@ ("messages" :> items.val)))
    ELSE IF x.py = "str"
    THEN Return(Dict("messages" :> List(<<Dict([role |-> Str("user"), content |-> x])>>)))
    ELSE IF _is_message_like_obj(x)
    THEN Wrap(Collect(<<_message_obj_to_dict(x, strip)>>))
    ELSE IF x.py = "dict"
    THEN Wrap(Collect(<<_coerce_message_dict(x, strip)>>))
    ELSE IF x.py = "list"
    THEN IF Len(x.l) = 0
         THEN Raise("ValueError", "Empty message list is not allowed")
         ELSE Wrap(Collect([i \in 1..Len(x.l) |-> ListItem(x.l[i], strip)]))
    ELSE Raise("TypeError", "Invalid input: must be str, dict, list, or Message-like dataclass")

\* ------------------------------------------------------------------
\* OpenAI adapter
\* ------------------------------------------------------------------
\* the rendering without the role remapping
RenderNoRemap(m) ==
    Dict(   (IF Truthy(m.d["tool_call_id"])
             THEN "tool_call_id" :> m.d["tool_call_id"] ELSE NoKeys)
         @@ (IF Truthy(m.d["name"]) THEN "name" :> m.d["name"] ELSE NoKeys)
         @@ [role |-> m.d["role"], content |-> m.d["content"]])

\* the dict appended to rendered for one message
Render(m) ==
    Dict(   (IF Truthy(m.d["tool_call_id"])
             THEN "tool_call_id" :> m.d["tool_call_id"] ELSE NoKeys)
         @@ (IF Truthy(m.d["name"]) THEN "name" :> m.d["name"] ELSE NoKeys)
         @@ [role |-> IF m.d["role"] = Str("developer") THEN Str("system") ELSE m.d["role"],
             content |-> m.d["content"]])

\* the lift loop without its break: it ends on the last system message
LiftLast(ms, use) ==
    IF use /\ \E i \in 1..Len(ms) : ms[i].d["role"] = Str("system")
    THEN CHOOSE i \in 1..Len(ms) :
            /\ ms[i].d["role"] = Str("system")
            /\ \A j \in (i + 1)..Len(ms) : ms[j].d["role"] # Str("system")
    ELSE 0

\* index of the message the lift loop stops at, 0 when it runs to the end
LiftIndex(ms, use) ==
    IF use /\ \E i \in 1..Len(ms) : ms[i].d["role"] = Str("system")
    THEN CHOOSE i \in 1..Len(ms) :
            /\ ms[i].d["role"] = Str("system")
            /\ \A j \in 1..(i - 1) : ms[j].d["role"] # Str("system")
    ELSE 0

\* messages[:i] + messages[i:], which removes nothing
WithoutNothing(ms, i) == SubSeq(ms, 1, i - 1) \o SubSeq(ms, i, Len(ms))

\* messages[:i] + messages[i+1:], with i counted from 1
Without(ms, i) == SubSeq(ms, 1, i - 1) \o SubSeq(ms, i + 1, Len(ms))

to_openai(ms, use) ==
    LET i == LiftIndex(ms, use)
        instructions_content == IF i = 0 THEN None ELSE ms[i].d["content"]
        rest == IF i = 0 THEN ms ELSE Without(ms, i)
        rendered == [k \in 1..Len(rest) |-> Render(rest[k])]
    IN  Dict(   (IF use /\ instructions_content.py # "NoneType"
                 THEN "instructions" :> instructions_content ELSE NoKeys)
             @@ ("messages" :> List(rendered)))

\* ------------------------------------------------------------------
\* Explored inputs
\* ------------------------------------------------------------------
Block == Dict([type |-> Str("text"), text |-> Str("hi")])
SomeMeta == Dict([k |-> Str("v")])

\* marks a key left out of a record literal
Absent == PyVal("absent", "", NoKeys, <<>>)

RoleVals == {None, Str(""), Str("user"), Str("USER"), PyInt("5")}
ContentVals == {None, Str(""), Str("hi"), List(<<Block>>), List(<<Str("hi")>>), PyInt("5")}
NameVals == {None, Str(""), Str("bob"), PyInt("5")}
ToolVals == {None, Str(""), Str("t1"), PyInt("5")}
MetaVals == {None, Dict(NoKeys), SomeMeta, Str("m")}

\* the record literal with the keys whose value is not Absent
Record(f) == Dict([k \in {j \in DOMAIN f : f[j] # Absent} |-> f[k]])

Rec(r, c, n, t, m) ==
    Record([role |-> r, content |-> c, name |-> n, tool_call_id |-> t, meta |-> m])

SingleRecords ==
    {Rec(r, c, n, t, m) : r \in RoleVals \cup {Absent}, c \in ContentVals \cup {Absent},
                          n \in NameVals \cup {Absent}, t \in ToolVals \cup {Absent},
                          m \in MetaVals \cup {Absent}}

SingleObjects ==
    {Message(r, c, n, t, m) : r \in RoleVals, c \in ContentVals, n \in NameVals,
                              t \in ToolVals, m \in MetaVals}

\* elements of the explored lists and "messages" sequences
Items ==
    { Rec(Str("user"), Str("hi"), Absent, Absent, Absent),
      Rec(Str("USER"), List(<<Block>>), Str("bob"), Str("t1"), SomeMeta),
      Rec(Str("user"), Str(""), Absent, Absent, Absent),
      Rec(Str("user"), Str(""), PyInt("5"), Absent, Absent),
      Rec(Str("system"), Str("hi"), Str(""), None, Dict(NoKeys)),
      Rec(Str("user"), Str("hi"), Absent, Absent, Str("m")),
      Message(Str("user"), Str("hi"), None, None, None),
      Message(Str("System"), Str("hi"), Str("bob"), Str(""), SomeMeta),
      Message(Str("user"), Str(""), None, None, None),
      PyInt("5") }

RECURSIVE SeqsUpTo(_, _)
\* the sequences over S of length at most n
SeqsUpTo(S, n) ==
    IF n = 0 THEN {<<>>}
    ELSE LET shorter == SeqsUpTo(S, n - 1)
         IN  shorter \cup {Append(q, e) : q \in {r \in shorter : Len(r) = n - 1}, e \in S}

Lists == {List(q) : q \in SeqsUpTo(Items, MaxLen)}

\* mappings with a "messages" key, some of which also look like a record
Payloads ==
    {Record([messages |-> ms, instructions |-> ins, role |-> r, content |-> r]) :
        ms \in Lists \cup {Str("hi"), None},
        ins \in {Absent, None, Str("be terse")},
        r \in {Absent, Str("user")}}

Others == {Str(""), Str("hi"), None, PyInt("5"), Dataclass([role |-> Str("user")])}

NormalizeInputs == SingleRecords \cup SingleObjects \cup Lists \cup Payloads \cup Others

\* Message objects as typed by the dataclass: role a string, content a
\* string or a list of blocks, name and tool_call_id a string or None
OpenaiMessages ==
    {Message(Str(r), Str(c), o[1], o[2], o[3]) :
        r \in {"system", "developer", "user"}, c \in {"be terse", "hi"},
        o \in {<<None, None, None>>, <<Str("bob"), Str("t1"), SomeMeta>>}}
    \cup {Message(Str("user"), List(<<Block>>), Str(""), None, Dict(NoKeys)),
          Message(Str("System"), Str(""), None, Str(""), None)}

\* ------------------------------------------------------------------
\* Calls
\* ------------------------------------------------------------------
Init ==
    /\ op = "idle"
    /\ data = None
    /\ strip_meta = TRUE
    /\ messages = <<>>
    /\ use_instructions = FALSE
    /\ result = Return(None)
    /\ first = Return(None)

\* normalize(data, strip_meta=b)
CallNormalize ==
    /\ op = "idle"
    /\ \E x \in NormalizeInputs, b \in BOOLEAN :
          /\ data' = x
          /\ strip_meta' = b
          /\ result' = normalize(x, b)
    /\ op' = "normalize"
    /\ UNCHANGED <<messages, use_instructions, first>>

\* normalize(out, strip_meta=b) on the payload out that normalize(data,
\* strip_meta=b) returned
Renormalize ==
    /\ op = "normalize"
    /\ result.ok
    /\ first' = result
    /\ result' = normalize(result.val, strip_meta)
    /\ op' = "renormalize"
    /\ UNCHANGED <<data, strip_meta, messages, use_instructions>>

\* to_openai(messages, use_instructions=u)
CallToOpenai ==
    /\ op = "idle"
    /\ \E ms \in SeqsUpTo(OpenaiMessages, MaxMsgs), u \in BOOLEAN :
          /\ messages' = ms
          /\ use_instructions' = u
          /\ result' = Return(to_openai(ms, u))
    /\ op' = "to_openai"
    /\ UNCHANGED <<data, strip_meta, first>>

\* the caller drops the outcome
Done ==
    /\ op # "idle"
    /\ op' = "idle"
    /\ data' = None
    /\ strip_meta' = TRUE
    /\ messages' = <<>>
    /\ use_instructions' = FALSE
    /\ result' = Return(None)
    /\ first' = Return(None)

Next == CallNormalize \/ Renormalize \/ CallToOpenai \/ Done

Spec == Init /\ [][Next]_vars

\* ------------------------------------------------------------------
\* Vocabulary of the properties
\* ------------------------------------------------------------------
\* the records of the payload a call returned
Out == result.val.d["messages"].l

OptionalKeys == {"name", "tool_call_id", "meta"}

\* null, the empty string or the empty mapping
IsEmpty(v) == v.py = "NoneType" \/ v = Str("") \/ (v.py = "dict" /\ DOMAIN v.d = {})

IsMessageObject(x) == x.py = "dataclass" /\ {"role", "content"} \subseteq DOMAIN x.d

\* a mapping with a "messages" key
IsPayloadInput(x) == x.py = "dict" /\ "messages" \in DOMAIN x.d

IsBareRecord(x) == x.py = "dict" /\ "messages" \notin DOMAIN x.d

\* the messages the input of normalize carries, in order
InputItems(x) ==
    IF IsPayloadInput(x) THEN (IF x.d["messages"].py = "list" THEN x.d["messages"].l ELSE <<>>)
    ELSE IF x.py = "list" THEN x.l
    ELSE IF IsMessageObject(x) \/ IsBareRecord(x) THEN <<x>>
    ELSE <<>>

\* a record or message object whose content is the empty string
HasEmptyContent(it) ==
    /\ it.py \in {"dict", "dataclass"}
    /\ "content" \in DOMAIN it.d
    /\ it.d["content"] = Str("")

\* ------------------------------------------------------------------
\* C1
\* ------------------------------------------------------------------
\* C1: in every payload returned by normalize or to_openai no record carries
\* a name, tool_call_id or meta key whose value is null, the empty string or
\* the empty mapping.
C1_NoEmptyOptionalField ==
    (op # "idle" /\ result.ok) =>
        \A i \in 1..Len(Out) : \A k \in OptionalKeys :
            k \in DOMAIN Out[i].d => ~IsEmpty(Out[i].d[k])

\* ------------------------------------------------------------------
\* C2
\* ------------------------------------------------------------------
\* the input's sequence of messages is present and has no element
ZeroMessages(x) ==
    \/ x = List(<<>>)
    \/ (IsPayloadInput(x) /\ x.d["messages"] = List(<<>>))

\* C2: normalize fails with the empty-input error whenever the input's
\* sequence of messages has zero elements, and never returns a payload whose
\* messages sequence is empty.
C2_ZeroMessagesRejected ==
    op = "normalize" =>
        /\ ZeroMessages(data) =>
              result = Raise("ValueError", "Empty message list is not allowed")
        /\ result.ok => Len(Out) > 0

\* ------------------------------------------------------------------
\* C3
\* ------------------------------------------------------------------
\* normalize(s) for a string s: one user record with content s
BareStringWrapped ==
    data.py = "str" =>
        result = Return(Dict("messages" :>
                     List(<<Dict([role |-> Str("user"), content |-> data])>>)))

\* C3 as stated: a string is wrapped without validation, and an input with a
\* record or message object of empty string content always fails with a
\* ValidationError (ValueError).
C3_Original ==
    op = "normalize" =>
        /\ BareStringWrapped
        /\ \A i \in 1..Len(InputItems(data)) :
              HasEmptyContent(InputItems(data)[i]) =>
                  (~result.ok /\ result.err = "ValueError")

\* name, tool_call_id and (when meta is kept) meta of a record are absent,
\* null or of the type Record Coercion asks for; a message object's attributes
\* are not type-checked
OptionalWellTyped(it, strip) ==
    it.py = "dict" =>
        /\ Get(it.d, "name").py \in {"NoneType", "str"}
        /\ Get(it.d, "tool_call_id").py \in {"NoneType", "str"}
        /\ (strip \/ Get(it.d, "meta").py \in {"NoneType", "dict"})

\* the input of the same shape as data carrying the single message it
AloneInShape(it) ==
    IF IsPayloadInput(data) THEN Dict("messages" :> List(<<it>>)) ELSE List(<<it>>)

\* C3, amended: a string is wrapped without validation; an input with a
\* record or message object of empty string content always fails, and the
\* failure is a ValidationError (ValueError) when every earlier element is
\* valid, the item is not a message object inside a full payload and its
\* optional fields are well typed.
C3_EmptyContentAsymmetry ==
    op = "normalize" =>
        /\ BareStringWrapped
        /\ \A i \in 1..Len(InputItems(data)) :
              LET it == InputItems(data)[i]
              IN  HasEmptyContent(it) =>
                    /\ ~result.ok
                    /\ ( /\ \A j \in 1..(i - 1) :
                               normalize(AloneInShape(InputItems(data)[j]), strip_meta).ok
                         /\ ~(IsPayloadInput(data) /\ it.py = "dataclass")
                         /\ OptionalWellTyped(it, strip_meta) )
                       => result.err = "ValueError"

\* the empty string is rejected as the content of a message object that
\* follows a valid record
C3_Witness ==
    /\ op = "normalize"
    /\ data.py = "list"
    /\ Len(data.l) = 2
    /\ data.l[1].py = "dict"
    /\ data.l[2] = Message(Str("user"), Str(""), None, None, None)
    /\ result = Raise("ValueError", "Empty string content is not allowed")

\* ------------------------------------------------------------------
\* C4
\* ------------------------------------------------------------------
\* C4: re-normalizing, with the same option, the payload that normalize
\* returned for a full payload succeeds and returns an identical payload.
C4_Idempotent ==
    (op = "renormalize" /\ IsPayloadInput(data)) => (result.ok /\ result = first)

C4_Witness ==
    /\ op = "renormalize"
    /\ IsPayloadInput(data)
    /\ "instructions" \in DOMAIN data.d
    /\ Len(data.d["messages"].l) = 2
    /\ data.d["messages"].l[1].d["role"] = Str("USER")
    /\ ~strip_meta
    /\ "meta" \in DOMAIN Out[1].d
    /\ result.ok

\* ------------------------------------------------------------------
\* C5
\* ------------------------------------------------------------------
IsSystem(m) == m.d["role"] = Str("system")

\* C5: with use_instructions, the rendered messages are the renderings of the
\* input without its earliest system record, in order, and instructions is
\* that record's content; without use_instructions every record is rendered.
C5_InstructionsLift ==
    op = "to_openai" =>
        /\ (use_instructions /\ \E i \in 1..Len(messages) : IsSystem(messages[i])) =>
              \E i \in 1..Len(messages) :
                 /\ IsSystem(messages[i])
                 /\ \A j \in 1..(i - 1) : ~IsSystem(messages[j])
                 /\ Len(Out) = Len(messages) - 1
                 /\ \A k \in 1..Len(Out) :
                       Out[k] = Render(IF k < i THEN messages[k] ELSE messages[k + 1])
                 /\ "instructions" \in DOMAIN result.val.d
                 /\ result.val.d["instructions"] = messages[i].d["content"]
        /\ ~use_instructions =>
              /\ Len(Out) = Len(messages)
              /\ \A k \in 1..Len(Out) : Out[k] = Render(messages[k])

\* two system records with different contents after another record
C5_Witness ==
    /\ op = "to_openai"
    /\ use_instructions
    /\ Len(messages) = 3
    /\ ~IsSystem(messages[1])
    /\ IsSystem(messages[2])
    /\ IsSystem(messages[3])
    /\ messages[2].d["content"] # messages[3].d["content"]
    /\ result.val.d["instructions"] = messages[2].d["content"]
    /\ Out[2].d["content"] = messages[3].d["content"]

\* ------------------------------------------------------------------
\* C6
\* ------------------------------------------------------------------
\* C6: the payload has an instructions key exactly when use_instructions is
\* true and the input has a system record; a record is removed exactly when
\* the key is present.
C6_InstructionsKey ==
    op = "to_openai" =>
        LET has == "instructions" \in DOMAIN result.val.d
        IN  /\ has <=> (use_instructions /\ \E i \in 1..Len(messages) : IsSystem(messages[i]))
            /\ has => Len(Out) = Len(messages) - 1
            /\ ~has => Len(Out) = Len(messages)
            /\ DOMAIN result.val.d \subseteq {"messages", "instructions"}

\* lift requested, nothing to lift
C6_Witness ==
    /\ op = "to_openai"
    /\ use_instructions
    /\ Len(messages) = 2
    /\ \A i \in 1..2 : messages[i].d["role"] \in {Str("developer"), Str("System")}
    /\ "instructions" \notin DOMAIN result.val.d
    /\ Len(Out) = 2

\* ------------------------------------------------------------------
\* C7
\* ------------------------------------------------------------------
\* a record or message object that carries a non-empty mapping as meta
CarriesMeta(it) ==
    /\ it.py \in {"dict", "dataclass"}
    /\ "meta" \in DOMAIN it.d
    /\ it.d["meta"].py = "dict"
    /\ DOMAIN it.d["meta"].d # {}

\* C7: with strip_meta no record returned by normalize has a meta key; without
\* it a non-empty meta mapping is kept unchanged; no record returned by
\* to_openai has a meta key.
C7_MetaOptIn ==
    /\ (op \in {"normalize", "renormalize"} /\ strip_meta /\ result.ok) =>
          \A i \in 1..Len(Out) : "meta" \notin DOMAIN Out[i].d
    /\ (op = "normalize" /\ ~strip_meta /\ result.ok) =>
          \A i \in 1..Len(InputItems(data)) :
              CarriesMeta(InputItems(data)[i]) =>
                  /\ "meta" \in DOMAIN Out[i].d
                  /\ Out[i].d["meta"] = InputItems(data)[i].d["meta"]
    /\ op = "to_openai" =>
          \A i \in 1..Len(Out) : "meta" \notin DOMAIN Out[i].d

\* meta kept from a record and from a message object of one list
C7_Witness ==
    /\ op = "normalize"
    /\ ~strip_meta
    /\ result.ok
    /\ data.py = "list"
    /\ Len(data.l) = 2
    /\ data.l[1].py = "dict"
    /\ data.l[2].py = "dataclass"
    /\ \A i \in 1..2 : CarriesMeta(data.l[i]) /\ Out[i].d["meta"] = SomeMeta

\* ------------------------------------------------------------------
\* C8
\* ------------------------------------------------------------------
\* C8: without lift the rendered sequence has the length and order of the
\* input; the role is the input role except that "developer" becomes
\* "system"; the content is the input content.
C8_Projection ==
    (op = "to_openai" /\ ~use_instructions) =>
        /\ Len(Out) = Len(messages)
        /\ \A i \in 1..Len(Out) :
              /\ Out[i].d["role"] = IF messages[i].d["role"] = Str("developer")
                                     THEN Str("system") ELSE messages[i].d["role"]
              /\ Out[i].d["content"] = messages[i].d["content"]

C8_Witness ==
    /\ op = "to_openai"
    /\ ~use_instructions
    /\ Len(messages) = 3
    /\ messages[1].d["role"] = Str("developer")
    /\ messages[2].d["role"] = Str("System")
    /\ messages[3].d["role"] = Str("user")
    /\ messages[3].d["content"].py = "list"
    /\ Out[1].d["role"] = Str("system")
    /\ Out[2].d["role"] = Str("System")

\* ------------------------------------------------------------------
\* C9
\* ------------------------------------------------------------------
\* C9: a message object and the bare record with the same keys and values
\* normalize to the same outcome: the same payload, or an error of the same
\* class.
C9_ObjectAsRecord ==
    (op = "normalize" /\ IsMessageObject(data)) =>
        LET rec == normalize(Dict(data.d), strip_meta)
        IN  \/ (result.ok /\ rec.ok /\ result = rec)
            \/ (~result.ok /\ ~rec.ok /\ result.err = rec.err)

\* ------------------------------------------------------------------
\* C10
\* ------------------------------------------------------------------
\* C10: a mapping with a messages key is handled as a full payload: the
\* records are the Record Coercions of the elements of messages, in order,
\* instructions is passed through exactly when present, and a messages value
\* that is not a list fails with the ShapeError (TypeError).
C10_PayloadFirst ==
    (op = "normalize" /\ IsPayloadInput(data)) =>
        IF data.d["messages"].py # "list"
        THEN result = Raise("TypeError", "'messages' must be a list")
        ELSE LET elems == data.d["messages"].l
             IN  /\ result.ok <=>
                       \A i \in 1..Len(elems) : _coerce_message_dict(elems[i], strip_meta).ok
                 /\ result.ok =>
                       /\ Len(Out) = Len(elems)
                       /\ \A i \in 1..Len(elems) :
                             _coerce_message_dict(elems[i], strip_meta) = Return(Out[i])
                       /\ DOMAIN result.val.d =
                             {"messages"} \cup (DOMAIN data.d \cap {"instructions"})
                       /\ "instructions" \in DOMAIN data.d =>
                             result.val.d["instructions"] = data.d["instructions"]

\* a payload that is also a valid record
C10_Witness ==
    /\ op = "normalize"
    /\ IsPayloadInput(data)
    /\ {"role", "content", "instructions"} \subseteq DOMAIN data.d
    /\ Len(data.d["messages"].l) = 2
    /\ result.ok
    /\ Out[1].d["content"] # data.d["content"]
    /\ result.val.d["instructions"] = Str("be terse")

====
